---- MODULE Spec2Model ----
(***************************************************************************)
(* Model of the recommendation core of app.py: load_data (lines 39-67)     *)
(* and get_recommendations (lines 73-97).                                  *)
(*                                                                         *)
(* Strings are sequences of one-character strings, positions are 0-based   *)
(* integers as in the source, Python objects are records tagged by kind.   *)
(***************************************************************************)
EXTENDS Integers, Sequences, FiniteSets, TLC

\* ---------------------------------------------------------------- bounds
MaxItems == 3
MaxLen == 2
MaxKeys == 2
MaxTopN == 3

\* default of the top_n parameter
DefaultTopN == 10

VARIABLES
    files,          \* the three pickle files on disk (df.pkl, indices.pkl, tfidf_matrix.pkl)
    argsort_order,  \* how this numpy build orders equal keys in argsort (unspecified by numpy)
    requests,       \* the (title, top_n) calls the callers of get_recommendations make
    pool,           \* the threads that run the script's query path
    pc,             \* position of the script in load_data / at line 67
    l_df, l_indices, l_tfidf, l_title_to_idx, l_i,   \* locals of load_data
    ret,            \* the triple load_data returned (held by st.cache_resource)
    df, title_to_idx, tfidf_matrix,                  \* module globals bound at line 67
    frames          \* per thread: the activation of get_recommendations

vars == <<files, argsort_order, requests, pool, pc, l_df, l_indices, l_tfidf,
          l_title_to_idx, l_i, ret, df, title_to_idx, tfidf_matrix, frames>>

\* ------------------------------------------------------- Python values
None == [kind |-> "None"]
Unbound == [kind |-> "unbound"]
Missing == [kind |-> "missing"]
Corrupt == [kind |-> "corrupt"]
IntVal(n) == [t |-> "int", n |-> n]
NaNVal == [t |-> "nan"]
DataFrame(titles) == [kind |-> "DataFrame", title |-> titles]
Series(items) == [kind |-> "Series", items |-> items]
Matrix(rows) == [kind |-> "csr_matrix", rows |-> rows]
Dict(map) == [kind |-> "dict", map |-> map]
List(val) == [kind |-> "list", val |-> val]
Raise(exc) == [kind |-> "raise", exc |-> exc]
Pending == [kind |-> "pending"]
IsNone(x) == x.kind = "None"

Workers == {"w1", "w2"}
Whitespace == {" "}
Alphabet == {" ", "a", "A"}
Strings == UNION {[1..k -> Alphabet] : k \in 0..MaxLen}
TopNs == {-2, -1} \cup (0..MaxTopN)
RowValues == {<<0, 0>>, <<1, 0>>, <<0, 1>>, <<2, 0>>}

Min(S) == CHOOSE x \in S : \A y \in S : x <= y
Max(S) == CHOOSE x \in S : \A y \in S : x >= y
Range(s) == {s[i] : i \in 1..Len(s)}

\* ------------------------------------------------------- normalisation
\* str.strip(): drop leading and trailing whitespace
Strip(s) ==
    LET keep == {i \in 1..Len(s) : s[i] \notin Whitespace}
    IN  IF keep = {} THEN <<>> ELSE SubSeq(s, Min(keep), Max(keep))

LowerChar(c) == IF c = "A" THEN "a" ELSE c

\* str.lower()
Lower(s) == [i \in 1..Len(s) |-> LowerChar(s[i])]

\* line 57: str(k).strip().lower(), k a str
NormalizeKey(k) == Lower(Strip(k))

NormalizeTitleNoLower(title) == Strip(title)

\* line 79: title.strip().lower()
NormalizeTitle(title) == Lower(Strip(title))

\* ------------------------------------------------------- dict operations
EmptyMap == [x \in {} |-> 0]

PutIfAbsent(map, k, v) ==
    [x \in DOMAIN map \cup {k} |-> IF x \in DOMAIN map THEN map[x] ELSE v]

\* line 57: title_to_idx[key] = value
Put(map, k, v) ==
    [x \in DOMAIN map \cup {k} |-> IF x = k THEN v ELSE map[x]]

LookupDefault(map, k) ==
    IF k \in DOMAIN map THEN [found |-> TRUE, idx |-> map[k]]
    ELSE [found |-> TRUE, idx |-> 0]

\* lines 81-84: membership test, then subscript
Lookup(map, k) ==
    IF k \in DOMAIN map THEN [found |-> TRUE, idx |-> map[k]]
    ELSE [found |-> FALSE, idx |-> 0]

\* ------------------------------------------------------- ranking
Dot(a, b) ==
    LET RECURSIVE Sum(_)
        Sum(i) == IF i = 0 THEN 0 ELSE a[i] * b[i] + Sum(i - 1)
    IN  Sum(Len(a))

\* line 90: (tfidf_matrix @ sig.T).toarray().flatten(); element i+1 is the score of position i
SimScores(rows, idx) == [i \in 1..Len(rows) |-> Dot(rows[i], rows[idx + 1])]

\* rank of position p in the build's order of equal keys
TieRank(p) == CHOOSE r \in 1..Len(argsort_order) : argsort_order[r] = p

\* ndarray.argsort(): positions by ascending score; equal scores in the build's order
Argsort(scores) ==
    LET n == Len(scores)
        Before(p, q) == \/ scores[p + 1] < scores[q + 1]
                        \/ scores[p + 1] = scores[q + 1] /\ TieRank(p) < TieRank(q)
        Place(p) == Cardinality({q \in 0..(n - 1) : Before(q, p)}) + 1
    IN  [r \in 1..n |-> CHOOSE p \in 0..(n - 1) : Place(p) = r]

\* s[::-1]
Reversed(s) == [i \in 1..Len(s) |-> s[Len(s) + 1 - i]]

\* s[start:stop] with Python's handling of negative and oversized bounds
PySlice(s, start, stop) ==
    LET n == Len(s)
        Clamp(x) == IF x < 0 THEN (IF x + n < 0 THEN 0 ELSE x + n)
                    ELSE (IF x > n THEN n ELSE x)
        lo == Clamp(start)
        hi == Clamp(stop)
    IN  IF lo < hi THEN SubSeq(s, lo + 1, hi) ELSE <<>>

\* line 93: sim_scores.argsort()[::-1][1:top_n+1]
SimIndices(scores, top_n) == PySlice(Reversed(Argsort(scores)), 1, top_n + 1)

\* line 97: df['title'].iloc[movie_indices].tolist()
Iloc(titles, positions) ==
    IF \E i \in 1..Len(positions) : positions[i] >= Len(titles)
    THEN Raise("IndexError")
    ELSE List([i \in 1..Len(positions) |-> titles[positions[i] + 1]])

\* ------------------------------------------------------- get_recommendations
Idle == [pc |-> "idle"]

Frame(p, title, top_n, found, idx, sim, result) ==
    [pc |-> p, title |-> title, top_n |-> top_n, found |-> found, idx |-> idx,
     sim_indices |-> sim, result |-> result]

\* line 75
SnapshotAbsent(d, m) == IsNone(d) \/ IsNone(m)

\* lines 73-84: entry, the None guard, normalisation and lookup
ResolveFrame(d, t2i, m, title, top_n) ==
    IF SnapshotAbsent(d, m)
    THEN Frame("done", title, top_n, FALSE, 0, <<>>, List(<<>>))
    ELSE IF IsNone(t2i)
    THEN Frame("done", title, top_n, FALSE, 0, <<>>, Raise("TypeError"))
    ELSE LET hit == Lookup(t2i.map, NormalizeTitle(title))
         IN  IF ~hit.found
             THEN Frame("done", title, top_n, FALSE, 0, <<>>, List(<<>>))
             ELSE Frame("score", title, top_n, TRUE, hit.idx, <<>>, Pending)

\* lines 88-93: row subscript, scores, sort and slice
RankFrame(m, f) ==
    IF f.idx >= Len(m.rows)
    THEN [f EXCEPT !.pc = "done", !.result = Raise("IndexError")]
    ELSE [f EXCEPT !.pc = "materialize",
                   !.sim_indices = SimIndices(SimScores(m.rows, f.idx), f.top_n)]

\* lines 96-97: titles of the retained positions
MaterializeFrame(d, f) ==
    [f EXCEPT !.pc = "done", !.result = Iloc(d.title, f.sim_indices)]

\* the whole call run without interruption against one snapshot
GetRecommendations(d, t2i, m, title, top_n) ==
    LET f1 == ResolveFrame(d, t2i, m, title, top_n)
    IN  IF f1.pc = "done" THEN f1
        ELSE LET f2 == RankFrame(m, f1)
             IN  IF f2.pc = "done" THEN f2 ELSE MaterializeFrame(d, f2)

\* ------------------------------------------------------- load_data
FailedLoadKeepDf == [df |-> l_df, title_to_idx |-> None, tfidf_matrix |-> None]

\* lines 62 and 65: return None, None, None
FailedLoad == [df |-> None, title_to_idx |-> None, tfidf_matrix |-> None]

\* line 55: the (key, value) pairs in iteration order
Iterable(indices) == indices.items

\* with open(path) / pickle.load(f): where control goes for a file
OpenOutcome(file) ==
    IF file.kind = "missing" THEN "except_fnf"
    ELSE IF file.kind = "corrupt" THEN "except_exc"
    ELSE "ok"

\* lines 43-44
OpenDf ==
    /\ pc = "open_df"
    /\ IF OpenOutcome(files.df) = "ok"
       THEN l_df' = files.df /\ pc' = "open_indices"
       ELSE l_df' = l_df /\ pc' = OpenOutcome(files.df)
    /\ UNCHANGED <<files, argsort_order, requests, pool, l_indices, l_tfidf,
                   l_title_to_idx, l_i, ret, df, title_to_idx, tfidf_matrix, frames>>

\* lines 46-47
OpenIndices ==
    /\ pc = "open_indices"
    /\ IF OpenOutcome(files.indices) = "ok"
       THEN l_indices' = files.indices /\ pc' = "open_tfidf"
       ELSE l_indices' = l_indices /\ pc' = OpenOutcome(files.indices)
    /\ UNCHANGED <<files, argsort_order, requests, pool, l_df, l_tfidf,
                   l_title_to_idx, l_i, ret, df, title_to_idx, tfidf_matrix, frames>>

\* lines 49-53
OpenTfidf ==
    /\ pc = "open_tfidf"
    /\ IF OpenOutcome(files.tfidf) = "ok"
       THEN /\ l_tfidf' = files.tfidf
            /\ l_title_to_idx' = Dict(EmptyMap)
            /\ l_i' = 1
            /\ pc' = "loop"
       ELSE /\ UNCHANGED <<l_tfidf, l_title_to_idx, l_i>>
            /\ pc' = OpenOutcome(files.tfidf)
    /\ UNCHANGED <<files, argsort_order, requests, pool, l_df, l_indices,
                   ret, df, title_to_idx, tfidf_matrix, frames>>

\* lines 56-57: one iteration of the loop; int(v) raises on a value that is not a number
NormalizeEntry ==
    /\ pc = "loop"
    /\ l_i <= Len(Iterable(l_indices))
    /\ LET e == Iterable(l_indices)[l_i]
       IN  IF e.v.t = "int"
           THEN /\ l_title_to_idx' = Dict(Put(l_title_to_idx.map, NormalizeKey(e.k), e.v.n))
                /\ l_i' = l_i + 1
                /\ pc' = "loop"
           ELSE /\ UNCHANGED <<l_title_to_idx, l_i>>
                /\ pc' = "except_exc"
    /\ UNCHANGED <<files, argsort_order, requests, pool, l_df, l_indices, l_tfidf,
                   ret, df, title_to_idx, tfidf_matrix, frames>>

\* line 59
ReturnLoaded ==
    /\ pc = "loop"
    /\ l_i > Len(Iterable(l_indices))
    /\ ret' = [df |-> l_df, title_to_idx |-> l_title_to_idx, tfidf_matrix |-> l_tfidf]
    /\ pc' = "returned"
    /\ UNCHANGED <<files, argsort_order, requests, pool, l_df, l_indices, l_tfidf,
                   l_title_to_idx, l_i, df, title_to_idx, tfidf_matrix, frames>>

\* lines 60-62
ExceptFileNotFound ==
    /\ pc = "except_fnf"
    /\ ret' = FailedLoad
    /\ pc' = "returned"
    /\ UNCHANGED <<files, argsort_order, requests, pool, l_df, l_indices, l_tfidf,
                   l_title_to_idx, l_i, df, title_to_idx, tfidf_matrix, frames>>

\* lines 63-65
ExceptException ==
    /\ pc = "except_exc"
    /\ ret' = FailedLoad
    /\ pc' = "returned"
    /\ UNCHANGED <<files, argsort_order, requests, pool, l_df, l_indices, l_tfidf,
                   l_title_to_idx, l_i, df, title_to_idx, tfidf_matrix, frames>>

\* line 67: df, title_to_idx, tfidf_matrix = load_data()
AssignGlobals ==
    /\ pc = "returned"
    /\ df' = ret.df
    /\ title_to_idx' = ret.title_to_idx
    /\ tfidf_matrix' = ret.tfidf_matrix
    /\ pc' = "serving"
    /\ UNCHANGED <<files, argsort_order, requests, pool, l_df, l_indices, l_tfidf,
                   l_title_to_idx, l_i, ret, frames>>

\* ------------------------------------------------------- query steps
ResolveSetDefault(w) ==
    /\ pc = "serving"
    /\ w \in pool
    /\ frames[w].pc = "idle"
    /\ \E r \in requests :
          /\ frames' = [frames EXCEPT ![w] =
                 ResolveFrame(df, title_to_idx, tfidf_matrix, r.title, r.top_n)]
          /\ title_to_idx' =
                 IF IsNone(title_to_idx) THEN title_to_idx
                 ELSE Dict(PutIfAbsent(title_to_idx.map, NormalizeTitle(r.title), 0))
    /\ UNCHANGED <<files, argsort_order, requests, pool, pc, l_df, l_indices, l_tfidf,
                   l_title_to_idx, l_i, ret, df, tfidf_matrix>>

\* lines 73-84, called at line 309
Resolve(w) ==
    /\ pc = "serving"
    /\ w \in pool
    /\ frames[w].pc = "idle"
    /\ \E r \in requests :
          frames' = [frames EXCEPT ![w] =
              ResolveFrame(df, title_to_idx, tfidf_matrix, r.title, r.top_n)]
    /\ UNCHANGED <<files, argsort_order, requests, pool, pc, l_df, l_indices, l_tfidf,
                   l_title_to_idx, l_i, ret, df, title_to_idx, tfidf_matrix>>

\* lines 88-93
Rank(w) ==
    /\ frames[w].pc = "score"
    /\ frames' = [frames EXCEPT ![w] = RankFrame(tfidf_matrix, frames[w])]
    /\ UNCHANGED <<files, argsort_order, requests, pool, pc, l_df, l_indices, l_tfidf,
                   l_title_to_idx, l_i, ret, df, title_to_idx, tfidf_matrix>>

\* lines 96-97
Materialize(w) ==
    /\ frames[w].pc = "materialize"
    /\ frames' = [frames EXCEPT ![w] = MaterializeFrame(df, frames[w])]
    /\ UNCHANGED <<files, argsort_order, requests, pool, pc, l_df, l_indices, l_tfidf,
                   l_title_to_idx, l_i, ret, df, title_to_idx, tfidf_matrix>>

\* the caller at lines 309-328 consumes the list; the thread is free again
Return(w) ==
    /\ frames[w].pc = "done"
    /\ frames' = [frames EXCEPT ![w] = Idle]
    /\ UNCHANGED <<files, argsort_order, requests, pool, pc, l_df, l_indices, l_tfidf,
                   l_title_to_idx, l_i, ret, df, title_to_idx, tfidf_matrix>>

\* ------------------------------------------------------- artifacts and callers
\* display title of the row at position i-1: "A", "Ab", "Abb", ...
RowTitle(i) == <<"A">> \o [k \in 1..(i - 1) |-> "b"]

\* a title no catalog row has
UnknownTitle == <<"z">>

Catalog(n) == DataFrame([i \in 1..n |-> RowTitle(i)])

\* the index built from the catalog: every title to its own position
CatalogIndex(n) == Series([i \in 1..n |-> [k |-> RowTitle(i), v |-> IntVal(i - 1)]])

\* rows alternate between two orthogonal unit vectors
AlternatingMatrix(n) == Matrix([i \in 1..n |-> IF i % 2 = 1 THEN <<1, 0>> ELSE <<0, 1>>])

Perms(n) == {p \in [1..n -> 0..(n - 1)] : \A i, j \in 1..n : p[i] = p[j] => i = j}

Identity(n) == [i \in 1..n |-> i - 1]

Calls(titles, topns) == {[title |-> t, top_n |-> n] : t \in titles, n \in topns}

CatalogTitles(n) == {RowTitle(i) : i \in 1..n} \cup {UnknownTitle}

InitProgram ==
    /\ pc = "open_df"
    /\ l_df = Unbound /\ l_indices = Unbound /\ l_tfidf = Unbound
    /\ l_title_to_idx = Unbound /\ l_i = 0
    /\ ret = [df |-> Unbound, title_to_idx |-> Unbound, tfidf_matrix |-> Unbound]
    /\ df = Unbound /\ title_to_idx = Unbound /\ tfidf_matrix = Unbound
    /\ frames = [w \in Workers |-> Idle]

\* source keys that collide after normalisation (case, leading and trailing
\* whitespace) and one that collides with none of them
KeyVariants == {<<"a">>, <<"A">>, <<" ", "a">>, <<"A", " ">>, <<"a", "a">>}

\* the two extreme builds: equal keys kept in ascending, or in descending, position
TieOrders(n) == {Identity(n), [i \in 1..n |-> n - i]}

\* consistent artifacts: every feature matrix, every top_n, both extreme tie orders
InitRanking ==
    \E n \in 1..MaxItems : \E rows \in [1..n -> RowValues] : \E order \in TieOrders(n) :
        /\ files = [df |-> Catalog(n), indices |-> CatalogIndex(n), tfidf |-> Matrix(rows)]
        /\ argsort_order = order
        /\ requests = Calls(CatalogTitles(n), TopNs)
        /\ pool = {"w1"}

\* a one-entry source index with every key over the alphabet, every query string,
\* the caller's default top_n
InitSingleKey ==
    \E key \in Strings :
        /\ files = [df |-> Catalog(MaxKeys),
                    indices |-> Series(<<[k |-> key, v |-> IntVal(0)]>>),
                    tfidf |-> AlternatingMatrix(MaxKeys)]
        /\ argsort_order = Identity(MaxKeys)
        /\ requests = Calls(Strings, {DefaultTopN})
        /\ pool = {"w1"}

\* source indexes of several keys, colliding or not, in every order and with every
\* assignment of distinct positions; every query string
InitDuplicateKeys ==
    \E len \in 2..MaxKeys : \E keys \in [1..len -> KeyVariants] : \E vals \in Perms(len) :
        /\ files = [df |-> Catalog(MaxKeys),
                    indices |-> Series([i \in 1..len |-> [k |-> keys[i], v |-> IntVal(vals[i])]]),
                    tfidf |-> AlternatingMatrix(MaxKeys)]
        /\ argsort_order = Identity(MaxKeys)
        /\ requests = Calls(Strings, {DefaultTopN})
        /\ pool = {"w1"}

\* index values: the first row, the last row of the smaller and of the larger catalog,
\* one past the last row, and a value int() rejects
IndexValues == {IntVal(0), IntVal(MaxItems - 2), IntVal(MaxItems - 1), IntVal(MaxItems), NaNVal}

\* missing, unreadable and mutually inconsistent artifacts
InitArtifacts ==
    \E d \in {Missing, Corrupt, Catalog(MaxItems - 1), Catalog(MaxItems)} :
    \E m \in {Missing, Corrupt, AlternatingMatrix(MaxItems - 1), AlternatingMatrix(MaxItems)} :
    \E i \in {Missing, Corrupt} \cup
             {Series([j \in 1..MaxKeys |-> [k |-> RowTitle(j), v |-> vs[j]]]) :
                 vs \in [1..MaxKeys -> IndexValues]} :
        /\ files = [df |-> d, indices |-> i, tfidf |-> m]
        /\ argsort_order = IF m.kind = "csr_matrix" THEN Identity(Len(m.rows)) ELSE <<>>
        /\ requests = Calls(CatalogTitles(MaxItems), {DefaultTopN})
        /\ pool = {"w1"}

\* two threads querying one consistent snapshot with tied rows, every tie order
InitConcurrent ==
    \E order \in Perms(MaxItems) :
        /\ files = [df |-> Catalog(MaxItems), indices |-> CatalogIndex(MaxItems),
                    tfidf |-> AlternatingMatrix(MaxItems)]
        /\ argsort_order = order
        /\ requests = Calls(CatalogTitles(MaxItems), {1, DefaultTopN})
        /\ pool = Workers

Init ==
    /\ InitProgram
    /\ \/ InitRanking
       \/ InitSingleKey
       \/ InitDuplicateKeys
       \/ InitArtifacts
       \/ InitConcurrent

Next ==
    \/ OpenDf
    \/ OpenIndices
    \/ OpenTfidf
    \/ NormalizeEntry
    \/ ReturnLoaded
    \/ ExceptFileNotFound
    \/ ExceptException
    \/ AssignGlobals
    \/ \E w \in Workers : Resolve(w)
    \/ \E w \in Workers : Rank(w)
    \/ \E w \in Workers : Materialize(w)
    \/ \E w \in Workers : Return(w)

Spec == Init /\ [][Next]_vars

\* ------------------------------------------------------- vocabulary of the properties
Active == {w \in Workers : frames[w].pc # "idle"}
Finished == {w \in Workers : frames[w].pc = "done"}
Listed == {w \in Finished : frames[w].result.kind = "list"}
Ranked == {w \in Listed : frames[w].found}

Loaded == pc = "serving" /\ ~IsNone(df)

ItemCount == Len(tfidf_matrix.rows)

\* inner product of the row at position p with the query row of frame f
Score(f, p) == Dot(tfidf_matrix.rows[p + 1], tfidf_matrix.rows[f.idx + 1])

Returned(f) == Range(f.sim_indices)

Place(s, x) == CHOOSE i \in 1..Len(s) : s[i] = x

Readable(file) == file.kind \notin {"missing", "corrupt"}

AllReadable == Readable(files.df) /\ Readable(files.indices) /\ Readable(files.tfidf)

SourceItems == files.indices.items

\* the same letters up to case, one by one
CaseEq(x, y) ==
    /\ Len(x) = Len(y)
    /\ \A i \in 1..Len(x) : x[i] = y[i] \/ {x[i], y[i]} = {"a", "A"}

Blank(s, from, to) == \A i \in from..to : s[i] \in Whitespace

\* q and k differ only in letter case and in leading or trailing whitespace
SameTitle(q, k) ==
    \E a \in 0..Len(q) :
        /\ Blank(q, 1, a)
        /\ \E b \in a..Len(q) :
               /\ Blank(q, b + 1, Len(q))
               /\ \E c \in 0..Len(k) :
                      /\ Blank(k, 1, c)
                      /\ b - a <= Len(k) - c
                      /\ Blank(k, c + (b - a) + 1, Len(k))
                      /\ CaseEq(SubSeq(q, a + 1, b), SubSeq(k, c + 1, c + (b - a)))

\* the last source entry whose key is the same title as k
LastEntry(k) == Max({j \in 1..Len(SourceItems) : SameTitle(SourceItems[j].k, k)})

\* ------------------------------------------------------- C1
\* C1 (self-exclusion): a call with the title of the item at position p, which
\* the index resolves to p, never returns position p, whatever the matrix.
C1_SelfExclusion ==
    \A w \in Ranked : \A p \in 0..(Len(df.title) - 1) :
        (frames[w].title = df.title[p + 1] /\ frames[w].idx = p)
            => /\ p \notin Returned(frames[w])
               /\ df.title[p + 1] \notin Range(frames[w].result.val)

\* ------------------------------------------------------- C2
\* C2 (topN bound): the returned list is never longer than max(top_n, 0), so every
\* top_n <= 0 gives the empty list; a found title with top_n above the number of
\* other items gets exactly all the other items.
C2_TopNBound ==
    \A w \in Listed :
        LET f == frames[w]
        IN  /\ Len(f.result.val) <= (IF f.top_n > 0 THEN f.top_n ELSE 0)
            /\ (f.found /\ f.top_n > ItemCount - 1)
                   => Returned(f) = (0..(ItemCount - 1)) \ {f.idx}

\* ------------------------------------------------------- C3
\* C3 (not-found contract): a call whose stripped, lower-cased title is not a key of
\* the index, or that runs after a failed load, is finished with the empty list and
\* never raises, for every top_n.
C3_NotFoundContract ==
    \A w \in Active :
        LET f == frames[w]
        IN  (\/ IsNone(df) \/ IsNone(tfidf_matrix)
             \/ Lower(Strip(f.title)) \notin DOMAIN title_to_idx.map)
                => f.pc = "done" /\ f.result = List(<<>>)

C3_Witness ==
    \E w \in Finished :
        /\ Loaded
        /\ DOMAIN title_to_idx.map # {}
        /\ Lower(Strip(frames[w].title)) \notin DOMAIN title_to_idx.map
        /\ frames[w].result = List(<<>>)

\* ------------------------------------------------------- C4
\* C4 (rank ordering): in a returned sequence every item scores at least as much as
\* its successor, and every returned item scores at least as much as every item that
\* was not returned, the query item aside.
C4_RankOrdering ==
    \A w \in Ranked :
        LET f == frames[w]
        IN  /\ \A i \in 1..(Len(f.sim_indices) - 1) :
                   Score(f, f.sim_indices[i]) >= Score(f, f.sim_indices[i + 1])
            /\ \A a \in Returned(f) : \A b \in (0..(ItemCount - 1)) \ (Returned(f) \cup {f.idx}) :
                   Score(f, a) >= Score(f, b)

\* ------------------------------------------------------- C5
\* C5 (tie-break): of two candidates i < j with equal score, i is ranked before j: if
\* both are returned i comes first, if one is returned it is i; and two finished calls
\* with the same arguments have the same result.
C5_TieBreak ==
    /\ \A w \in Ranked :
           LET f == frames[w]
               cand == (0..(ItemCount - 1)) \ {f.idx}
           IN  \A i, j \in cand :
                   (i < j /\ Score(f, i) = Score(f, j))
                       => /\ j \in Returned(f) => i \in Returned(f)
                          /\ (i \in Returned(f) /\ j \in Returned(f))
                                 => Place(f.sim_indices, i) < Place(f.sim_indices, j)
    /\ \A v, w \in Finished :
           (frames[v].title = frames[w].title /\ frames[v].top_n = frames[w].top_n)
               => frames[v].result = frames[w].result

\* ------------------------------------------------------- C6
\* C6 (case/whitespace tolerance), as claimed: key and query are normalised by the same
\* idempotent function, and a query that differs from a source key k only in case and
\* outer whitespace is found and resolves to the position stored for k.
C6_ToleranceOwnPosition ==
    \A w \in Active :
        LET f == frames[w]
        IN  Loaded =>
               /\ NormalizeTitle(NormalizeTitle(f.title)) = NormalizeTitle(f.title)
               /\ NormalizeKey(f.title) = NormalizeTitle(f.title)
               /\ \A j \in 1..Len(SourceItems) :
                      SameTitle(f.title, SourceItems[j].k)
                          => f.found /\ f.idx = SourceItems[j].v.n

\* C6, amended: such a query is found and resolves to the position stored for the last
\* source key that is the same title as k (k's own position when no later key is).
C6_ToleranceLastPosition ==
    \A w \in Active :
        LET f == frames[w]
        IN  Loaded =>
               /\ NormalizeTitle(NormalizeTitle(f.title)) = NormalizeTitle(f.title)
               /\ NormalizeKey(f.title) = NormalizeTitle(f.title)
               /\ \A j \in 1..Len(SourceItems) :
                      SameTitle(f.title, SourceItems[j].k)
                          => f.found /\ f.idx = SourceItems[LastEntry(SourceItems[j].k)].v.n

C6_Witness ==
    /\ Loaded
    /\ \E w \in Active : \E j \in 1..Len(SourceItems) :
           /\ SameTitle(frames[w].title, SourceItems[j].k)
           /\ frames[w].title # SourceItems[j].k
           /\ Strip(frames[w].title) # frames[w].title
           /\ Lower(frames[w].title) # frames[w].title
           /\ frames[w].found
           /\ frames[w].idx = SourceItems[j].v.n

\* ------------------------------------------------------- C7
\* C7 (load consistency check): when the readable artifacts disagree in shape (matrix
\* rows against catalog rows, or an index value outside the rows) the load is reported
\* as failed, so the script never serves from an inconsistent triple.
ShapesDisagree ==
    \/ Len(files.tfidf.rows) # Len(files.df.title)
    \/ \E j \in 1..Len(SourceItems) :
           SourceItems[j].v.t = "int" /\ SourceItems[j].v.n \notin 0..(Len(files.tfidf.rows) - 1)

C7_LoadConsistencyCheck ==
    (pc = "serving" /\ AllReadable /\ ShapesDisagree) => IsNone(df)

\* ------------------------------------------------------- C8
AllOf(t, kinds) == <<t.df.kind, t.title_to_idx.kind, t.tfidf_matrix.kind>> = kinds

AllOrNothing(t) ==
    \/ AllOf(t, <<"unbound", "unbound", "unbound">>)
    \/ AllOf(t, <<"None", "None", "None">>)
    \/ AllOf(t, <<"DataFrame", "dict", "csr_matrix">>)

Globals == [df |-> df, title_to_idx |-> title_to_idx, tfidf_matrix |-> tfidf_matrix]

LoadError ==
    \/ ~AllReadable
    \/ \E j \in 1..Len(SourceItems) : SourceItems[j].v.t # "int"

\* C8 (all-or-nothing load): what load_data returns and what line 67 binds is either
\* three structures or three None, never a mixture; after any error (missing file,
\* unpickle failure, failure on an index entry) it is three None.
C8_AllOrNothing ==
    /\ AllOrNothing(ret)
    /\ AllOrNothing(Globals)
    /\ pc \in {"returned", "serving"} =>
           /\ ~AllOf(ret, <<"unbound", "unbound", "unbound">>)
           /\ LoadError => ret = [df |-> None, title_to_idx |-> None, tfidf_matrix |-> None]
    /\ pc = "serving" => Globals = ret

C8_Witness ==
    /\ pc = "serving"
    /\ AllReadable
    /\ Len(SourceItems) >= 2
    /\ SourceItems[1].v.t = "int"
    /\ SourceItems[2].v.t = "nan"
    /\ l_title_to_idx.kind = "dict"
    /\ DOMAIN l_title_to_idx.map # {}
    /\ AllOf(Globals, <<"None", "None", "None">>)

\* ------------------------------------------------------- C9
\* C9 (last-write-wins): after a successful load the index has exactly the normalised
\* source keys, each mapped to the position of the last source entry with that
\* normalised key; a key with a single entry therefore keeps its own position.
C9_LastWriteWins ==
    (pc = "serving" /\ ~IsNone(title_to_idx)) =>
        /\ DOMAIN title_to_idx.map = {Lower(Strip(SourceItems[j].k)) : j \in 1..Len(SourceItems)}
        /\ \A key \in DOMAIN title_to_idx.map :
               LET last == Max({j \in 1..Len(SourceItems) : Lower(Strip(SourceItems[j].k)) = key})
               IN  title_to_idx.map[key] = SourceItems[last].v.n

C9_Witness ==
    /\ pc = "serving" /\ ~IsNone(title_to_idx)
    /\ Len(SourceItems) = 2
    /\ SourceItems[1].k # SourceItems[2].k
    /\ Lower(Strip(SourceItems[1].k)) = Lower(Strip(SourceItems[2].k))
    /\ SourceItems[1].v.n # SourceItems[2].v.n
    /\ title_to_idx.map[Lower(Strip(SourceItems[1].k))] = SourceItems[2].v.n

\* ------------------------------------------------------- C10
\* C10 (read-only snapshot): while the script serves, the three globals are what
\* load_data returned, and every finished call, whatever ran in between, has the
\* result of the same call run alone against that snapshot.
C10_ReadOnlySnapshot ==
    pc = "serving" =>
        /\ Globals = ret
        /\ \A w \in Finished :
               frames[w] = GetRecommendations(ret.df, ret.title_to_idx, ret.tfidf_matrix,
                                              frames[w].title, frames[w].top_n)

C10_Witness ==
    /\ Loaded
    /\ frames["w1"].pc = "done"
    /\ frames["w1"].found
    /\ frames["w1"].result.kind = "list"
    /\ Len(frames["w1"].result.val) = 2
    /\ frames["w2"].pc = "materialize"
    /\ frames["w2"].title # frames["w1"].title

====
